---- MODULE Spec2Model ----
(***************************************************************************)
(* The recurring-task lifecycle of apps/tasks/views.py: the Task table,    *)
(* the edit handlers (edit, task_form), the completion handlers (status,   *)
(* status_htmx, bulk_status_htmx), archiving (clear_htmx) and the folder   *)
(* scope kept in the session (tasks_all); status_htmx query by query for   *)
(* two requests at a time; requests whose writes fail; edit requests the   *)
(* handlers reject; the mail functions of config/email.py; and the task   *)
(* filter kept in the session (tasks_due, task_filter, tasks_order_by,     *)
(* task_filter_default, filter_priority_htmx).                             *)
(***************************************************************************)
EXTENDS Integers, Sequences, FiniteSets, TLC

\* ------------------------------------------------------------------ bounds
MaxTasks == 3
MaxSpawnTasks == 4
MaxAdds == 1
MaxDay == 2
MaxRaceTasks == 5

\* ------------------------------------------------------------- value space
Pending == 0
Complete == 1

\* None of a nullable column, one per column type
NoTask == 0
NoFolder == 0
NoTime == 0
NoDate == <<>>
NoDay == -1
NoMonth == 0
NoType == "None"

\* request.user: the one logged-in user of the runs
Users == {1}

TaskIds == 1..MaxRaceTasks

\* date.today() on the n-th day of the run: 2024-03-15 is day 1
DateOfDay(n) == <<2024, 3, 14 + n>>

\* the due dates a form submits
DueDates == {<<2024, 3, 15>>, <<2025, 1, 6>>}

Recurrences == {"", "daily", "weekly", "monthly", "yearly"}

\* ------------------------------------------------------ datetime.date
is_leap(y) == y % 4 = 0 /\ (y % 100 # 0 \/ y % 400 = 0)

days_before_year(y) == (y - 1) * 365 + (y - 1) \div 4 - (y - 1) \div 100 + (y - 1) \div 400

DAYS_BEFORE_MONTH == <<0, 31, 59, 90, 120, 151, 181, 212, 243, 273, 304, 334>>

days_before_month(y, m) == DAYS_BEFORE_MONTH[m] + (IF m > 2 /\ is_leap(y) THEN 1 ELSE 0)

toordinal(d) == days_before_year(d[1]) + days_before_month(d[1], d[2]) + d[3]

\* weekday numbered as date.isoweekday() does: Monday is 1, Sunday is 7
weekday_Iso(d) == ((toordinal(d) + 6) % 7) + 1

\* date.weekday(): Monday is 0, Sunday is 6
weekday(d) == (toordinal(d) + 6) % 7

day(d) == d[3]

month(d) == d[2]

\* ------------------------------------------------------------ str.upper
upper(c) == CASE c = "a" -> "A" [] c = "b" -> "B" [] c = "c" -> "C" [] OTHER -> c

\* task.title[0].upper() + task.title[1:]
Capitalize(s) == <<upper(s[1])>> \o SubSeq(s, 2, Len(s))

\* ------------------------------------------------------------- state
VARIABLES tasks, nextId, adds, today, tasks_all, tasks_folder, last, hist,
          reqs, mail, response, session

vars == <<tasks, nextId, adds, today, tasks_all, tasks_folder, last, hist,
          reqs, mail, response, session>>

\* a new Task row: the column defaults, then the keyword arguments
NewTask(user, folder, title, priority, due_date, due_time, parent) ==
    [user |-> user, folder |-> folder, title |-> title, priority |-> priority,
     status |-> Pending, due_date |-> due_date, due_time |-> due_time,
     completed_date |-> NoDate, archived |-> FALSE, is_recurring |-> FALSE,
     recurrence_type |-> NoType, recurrence_day |-> NoDay,
     recurrence_month |-> NoMonth, last_generated |-> NoDate,
     parent_task |-> parent]

DefaultPriority == 1

\* the row with primary key id inserted into table db
Insert(db, id, row) == [i \in DOMAIN db \cup {id} |-> IF i = id THEN row ELSE db[i]]

\* the value of a field of the request log that the request has no use for
Unused == <<>>

\* the request log: the handler that ran last, the task it was given, the
\* payload it was posted, the task it created and the task it deleted
Did(op, id, created, deleted, p) ==
    [op |-> op, id |-> id, created |-> created, deleted |-> deleted, p |-> p]

Toggles == {"status", "status_htmx"}

Edits == {"edit", "task_form"}

StatusOf(t) == <<t.status, t.completed_date>>

\* the toggle history: the status and completed_date task id had before the
\* toggle that ran last (before) and, when the request before that was a
\* toggle of the same task too, before that one (before2)
NoHistory == [id |-> NoTask, before |-> Unused, before2 |-> Unused]

Toggled(id) ==
    [id |-> id, before |-> StatusOf(tasks[id]),
     before2 |-> IF last.op \in Toggles /\ hist.id = id THEN hist.before ELSE Unused]

\* the requests served at the same time
Requests == {1, 2}

\* a request slot before its request arrives: where the handler stands, the
\* id it was given, its task and parent objects, the task it created
Idle == [pc |-> "idle", id |-> NoTask, task |-> Unused, parent |-> Unused,
         created |-> NoTask]

\* a dict without keys: {} and a new request.session
EmptyDict == [k \in {} |-> NoTask]

\* the mail log before any mail function was called
NoMail == [op |-> "none"]

\* no response sent yet
NoResponse == [status |-> 0]

\* the folder, title, priority and due time a form submits
Contents ==
    {[folder |-> NoFolder, title |-> <<"a", "b">>, priority |-> 1, due_time |-> NoTime],
     [folder |-> 1, title |-> <<"C">>, priority |-> 2, due_time |-> 1]}

\* the payloads of TaskForm: folder, title, priority, due_date, due_time,
\* recurrence, status
PayloadSet(C, D, R, S) ==
    {[folder |-> c.folder, title |-> c.title, priority |-> c.priority,
      due_time |-> c.due_time, due_date |-> d, recurrence |-> r, status |-> s] :
        c \in C, d \in D, r \in R, s \in S}

Init ==
    /\ tasks = <<>>
    /\ nextId = 1
    /\ adds = 0
    /\ today = 1
    /\ tasks_all = FALSE
    /\ tasks_folder = NoFolder
    /\ last = Did("init", NoTask, NoTask, NoTask, Unused)
    /\ hist = NoHistory
    /\ reqs = [r \in Requests |-> Idle]
    /\ mail = NoMail
    /\ response = NoResponse
    /\ session = EmptyDict

\* select_folder(request, "tasks"): the folder the user has selected, or None
select_folder == tasks_folder

\* --------------------------------------------------------------- add_htmx
add_htmx(u, title, folder_id) ==
    /\ adds < MaxAdds
    /\ tasks' = Insert(tasks, nextId,
                       NewTask(u, folder_id, Capitalize(title), DefaultPriority,
                               NoDate, NoTime, NoTask))
    /\ nextId' = nextId + 1
    /\ adds' = adds + 1
    /\ last' = Did("add_htmx", nextId, nextId, NoTask, Unused)
    /\ UNCHANGED <<today, tasks_all, tasks_folder>>

\* ------------------------------------------------------ completion toggle
\* ToggleStatus with the revert leaving completed_date as it was
ToggleStatus_KeepDate(t, now) ==
    IF t.status = Complete
    THEN [t EXCEPT !.status = Pending]
    ELSE [t EXCEPT !.status = Complete, !.completed_date = now]

\* ToggleStatus archiving the task it completes
ToggleStatus_Archiving(t, now) ==
    IF t.status = Complete
    THEN [t EXCEPT !.status = Pending, !.completed_date = NoDate]
    ELSE [t EXCEPT !.status = Complete, !.completed_date = now, !.archived = TRUE]

\* the toggle of status and completed_date both handlers apply
ToggleStatus(t, now) ==
    IF t.status = Complete
    THEN [t EXCEPT !.status = Pending, !.completed_date = NoDate]
    ELSE [t EXCEPT !.status = Complete, !.completed_date = now]

status(id) ==
    /\ id \in DOMAIN tasks
    /\ tasks' = [tasks EXCEPT ![id] = ToggleStatus(tasks[id], DateOfDay(today))]
    /\ last' = Did("status", id, NoTask, NoTask, Unused)
    /\ UNCHANGED <<nextId, adds, today, tasks_all, tasks_folder>>

\* Task.objects.filter(parent_task=parent, status=0, archived=False).exists()
has_pending(db, parent) ==
    \E i \in DOMAIN db :
        db[i].parent_task = parent /\ db[i].status = Pending /\ ~db[i].archived

\* NextInstance due on the template's due date
NextInstance_DueFromTemplate(parent, parentId, now) ==
    NewTask(parent.user, parent.folder, parent.title, parent.priority,
            parent.due_date, parent.due_time, parentId)

\* the instance status_htmx creates from the template
NextInstance(parent, parentId, now) ==
    NewTask(parent.user, parent.folder, parent.title, parent.priority,
            now, parent.due_time, parentId)

\* ShouldGenerate without the look for a pending instance
ShouldGenerate_NoPendingCheck(db, id) ==
    /\ db[id].status = Complete
    /\ db[id].parent_task # NoTask
    /\ db[db[id].parent_task].is_recurring
    /\ ~db[db[id].parent_task].archived

\* ShouldGenerate without the tests of parent.is_recurring and parent.archived
ShouldGenerate_AnyParent(db, id) ==
    /\ db[id].status = Complete
    /\ db[id].parent_task # NoTask
    /\ ~has_pending(db, db[id].parent_task)

\* whether status_htmx generates the next instance, given the saved table
ShouldGenerate(db, id) ==
    /\ db[id].status = Complete
    /\ db[id].parent_task # NoTask
    /\ db[db[id].parent_task].is_recurring
    /\ ~db[db[id].parent_task].archived
    /\ ~has_pending(db, db[id].parent_task)

\* status_htmx without the save of parent.last_generated
status_htmx_NoStamp(id) ==
    /\ id \in DOMAIN tasks
    /\ LET now == DateOfDay(today)
           saved == [tasks EXCEPT ![id] = ToggleStatus(tasks[id], now)]
           p == saved[id].parent_task
       IN  IF ShouldGenerate(saved, id)
           THEN /\ tasks' = Insert(saved, nextId, NextInstance(saved[p], p, now))
                /\ nextId' = nextId + 1
                /\ last' = Did("status_htmx", id, nextId, NoTask, Unused)
           ELSE /\ tasks' = saved
                /\ nextId' = nextId
                /\ last' = Did("status_htmx", id, NoTask, NoTask, Unused)
    /\ UNCHANGED <<adds, today, tasks_all, tasks_folder>>

status_htmx(id) ==
    /\ id \in DOMAIN tasks
    /\ LET now == DateOfDay(today)
           saved == [tasks EXCEPT ![id] = ToggleStatus(tasks[id], now)]
           p == saved[id].parent_task
       IN  IF ShouldGenerate(saved, id)
           THEN /\ tasks' = Insert([saved EXCEPT ![p].last_generated = now],
                                   nextId, NextInstance(saved[p], p, now))
                /\ nextId' = nextId + 1
                /\ last' = Did("status_htmx", id, nextId, NoTask, Unused)
           ELSE /\ tasks' = saved
                /\ nextId' = nextId
                /\ last' = Did("status_htmx", id, NoTask, NoTask, Unused)
    /\ UNCHANGED <<adds, today, tasks_all, tasks_folder>>

\* ------------------------------------------------------- edit, task_form
\* form.save(commit=False), task.user = user, the title capitalised
FormSave(t, p, u) ==
    [t EXCEPT !.folder = p.folder, !.title = Capitalize(p.title),
              !.priority = p.priority, !.due_date = p.due_date,
              !.due_time = p.due_time, !.status = p.status, !.user = u]

\* task_form only: completed_date follows a change of status
UpdateCompletedDate(t, old_status, now) ==
    IF t.status = Complete /\ old_status # Complete
    THEN [t EXCEPT !.completed_date = now]
    ELSE IF t.status # Complete /\ old_status = Complete
         THEN [t EXCEPT !.completed_date = NoDate]
         ELSE t

\* DeriveRecurrence clearing recurrence_day and recurrence_month when there
\* is no due date
DeriveRecurrence_ClearWithoutDate(t, recurrence, due_date) ==
    LET typed == [t EXCEPT !.recurrence_type = recurrence]
    IN  IF due_date = NoDate
        THEN [typed EXCEPT !.recurrence_day = NoDay, !.recurrence_month = NoMonth]
        ELSE CASE recurrence = "daily" -> [typed EXCEPT !.recurrence_day = NoDay]
               [] recurrence = "monthly" -> [typed EXCEPT !.recurrence_day = day(due_date)]
               [] recurrence = "weekly" -> [typed EXCEPT !.recurrence_day = weekday(due_date)]
               [] recurrence = "yearly" ->
                      [typed EXCEPT !.recurrence_day = day(due_date),
                                    !.recurrence_month = month(due_date)]
               [] OTHER -> typed

\* recurrence_type, recurrence_day and recurrence_month of template t, set
\* from a non-empty recurrence and the edited task's due date
DeriveRecurrence(t, recurrence, due_date) ==
    LET typed == [t EXCEPT !.recurrence_type = recurrence]
    IN  IF due_date = NoDate THEN typed
        ELSE CASE recurrence = "daily" -> [typed EXCEPT !.recurrence_day = NoDay]
               [] recurrence = "monthly" -> [typed EXCEPT !.recurrence_day = day(due_date)]
               [] recurrence = "weekly" -> [typed EXCEPT !.recurrence_day = weekday(due_date)]
               [] recurrence = "yearly" ->
                      [typed EXCEPT !.recurrence_day = day(due_date),
                                    !.recurrence_month = month(due_date)]
               [] OTHER -> typed

\* SyncTemplate copying the due date too
SyncTemplate_WithDueDate(parent, task) ==
    [parent EXCEPT !.folder = task.folder, !.title = task.title,
                   !.priority = task.priority, !.due_time = task.due_time,
                   !.due_date = task.due_date]

\* the instance's folder, title, priority and due time copied to its template
SyncTemplate(parent, task) ==
    [parent EXCEPT !.folder = task.folder, !.title = task.title,
                   !.priority = task.priority, !.due_time = task.due_time]

\* on_delete of Task.parent_task
OnDelete == {"CASCADE", "SET_NULL"}

\* parent_task.delete(): the row goes, and its instances go with it or are
\* detached from it
DeleteTemplate(db, parent, mode) ==
    IF mode = "CASCADE"
    THEN [i \in {j \in DOMAIN db : j # parent /\ db[j].parent_task # parent} |-> db[i]]
    ELSE [i \in DOMAIN db \ {parent} |->
            IF db[i].parent_task = parent THEN [db[i] EXCEPT !.parent_task = NoTask]
            ELSE db[i]]

\* EditInstance saving the edited task again without detaching it
EditInstance_KeepParent(db, id, task, recurrence, mode) ==
    LET par == db[id].parent_task
        saved == [db EXCEPT ![id] = task]
    IN  IF recurrence # ""
        THEN [saved EXCEPT
                ![par] = DeriveRecurrence(SyncTemplate(db[par], task), recurrence,
                                          task.due_date)]
        ELSE Insert(DeleteTemplate(saved, par, mode), id, task)

\* the branch of an edit for a task that has a parent_task; task is the
\* edited task as the form left it
EditInstance(db, id, task, recurrence, mode) ==
    LET par == db[id].parent_task
        saved == [db EXCEPT ![id] = task]
    IN  IF recurrence # ""
        THEN [saved EXCEPT
                ![par] = DeriveRecurrence(SyncTemplate(db[par], task), recurrence,
                                          task.due_date)]
        ELSE Insert(DeleteTemplate(saved, par, mode), id,
                    [task EXCEPT !.parent_task = NoTask])

\* SetRecurrence leaving recurrence_day when the recurrence is cleared
SetRecurrence_KeepDay(task, recurrence) ==
    IF recurrence # ""
    THEN DeriveRecurrence([task EXCEPT !.is_recurring = TRUE], recurrence, task.due_date)
    ELSE [task EXCEPT !.is_recurring = FALSE, !.recurrence_type = NoType,
                      !.recurrence_month = NoMonth]

\* the recurrence fields an edit gives a task that has no parent_task
SetRecurrence(task, recurrence) ==
    IF recurrence # ""
    THEN DeriveRecurrence([task EXCEPT !.is_recurring = TRUE], recurrence, task.due_date)
    ELSE [task EXCEPT !.is_recurring = FALSE, !.recurrence_type = NoType,
                      !.recurrence_day = NoDay, !.recurrence_month = NoMonth]

\* FirstInstance without the due time
FirstInstance_NoDueTime(task, id) ==
    NewTask(task.user, task.folder, task.title, task.priority, task.due_date,
            NoTime, id)

\* FirstInstance taking is_recurring from the task too
FirstInstance_CopiesRecurring(task, id) ==
    [NewTask(task.user, task.folder, task.title, task.priority, task.due_date,
             task.due_time, id) EXCEPT !.is_recurring = task.is_recurring]

\* the first instance of a task that just became recurring
FirstInstance(task, id) ==
    NewTask(task.user, task.folder, task.title, task.priority, task.due_date,
            task.due_time, id)

\* LatestCandidates ordered by due_date ascending
LatestCandidates_Earliest(db, id) ==
    LET P == {i \in DOMAIN db : db[i].parent_task = id /\ db[i].status = Pending}
        nulls == {i \in P : db[i].due_date = NoDate}
        dated == P \ nulls
        earliest == {i \in dated : \A j \in dated :
                         toordinal(db[i].due_date) <= toordinal(db[j].due_date)}
    IN  nulls \cup earliest

\* Task.objects.filter(parent_task=task, status=0).order_by("-due_date").first():
\* the rows that can come first; where a NULL due_date sorts and how ties
\* break is the database's choice
LatestCandidates(db, id) ==
    LET P == {i \in DOMAIN db : db[i].parent_task = id /\ db[i].status = Pending}
        nulls == {i \in P : db[i].due_date = NoDate}
        dated == P \ nulls
        latest == {i \in dated : \A j \in dated :
                       toordinal(db[j].due_date) <= toordinal(db[i].due_date)}
    IN  nulls \cup latest

\* the template's folder, title, priority and due time copied to an instance
SyncInstance(inst, task) ==
    [inst EXCEPT !.folder = task.folder, !.title = task.title,
                 !.priority = task.priority, !.due_time = task.due_time]

\* the body of both edit handlers once the form is valid; task is the edited
\* task as the form left it
ApplyEdit(op, id, p, task) ==
    LET was_recurring == tasks[id].is_recurring
        now == DateOfDay(today)
    IN  IF tasks[id].parent_task # NoTask
        THEN /\ \E mode \in OnDelete :
                    tasks' = EditInstance(tasks, id, task, p.recurrence, mode)
             /\ nextId' = nextId
             /\ last' = Did(op, id, NoTask,
                            IF p.recurrence = "" THEN tasks[id].parent_task ELSE NoTask,
                            p)
        ELSE LET t == SetRecurrence(task, p.recurrence)
                 saved == [tasks EXCEPT ![id] = t]
             IN  IF t.is_recurring /\ ~was_recurring
                 THEN /\ tasks' = Insert([saved EXCEPT ![id].last_generated = now],
                                         nextId, FirstInstance(t, id))
                      /\ nextId' = nextId + 1
                      /\ last' = Did(op, id, nextId, NoTask, p)
                 ELSE /\ IF t.is_recurring /\ was_recurring
                            /\ LatestCandidates(saved, id) # {}
                         THEN \E li \in LatestCandidates(saved, id) :
                                 tasks' = [saved EXCEPT ![li] = SyncInstance(saved[li], t)]
                         ELSE tasks' = saved
                      /\ nextId' = nextId
                      /\ last' = Did(op, id, NoTask, NoTask, p)

\* POST /tasks/<id>/edit
edit(id, p, u) ==
    /\ id \in DOMAIN tasks
    /\ ApplyEdit("edit", id, p, FormSave(tasks[id], p, u))
    /\ UNCHANGED <<adds, today, tasks_all, tasks_folder>>

\* POST /tasks/<id>/form
task_form(id, p, u) ==
    /\ id \in DOMAIN tasks
    /\ ApplyEdit("task_form", id, p,
                 UpdateCompletedDate(FormSave(tasks[id], p, u), tasks[id].status,
                                     DateOfDay(today)))
    /\ UNCHANGED <<adds, today, tasks_all, tasks_folder>>

\* ------------------------------------------- bulk_status_htmx, clear_htmx
\* the rows of the folder scope the session selects, for the requesting user
InScope(db, u) ==
    IF tasks_all
    THEN {i \in DOMAIN db : db[i].user = u}
    ELSE IF select_folder # NoFolder
         THEN {i \in DOMAIN db : db[i].folder = select_folder}
         ELSE {i \in DOMAIN db : db[i].user = u /\ db[i].folder = NoFolder}

bulk_status_htmx(new_status, u) ==
    /\ LET qs == {i \in InScope(tasks, u) : ~tasks[i].is_recurring /\ ~tasks[i].archived}
           now == DateOfDay(today)
       IN  tasks' = [i \in DOMAIN tasks |->
                       IF i \in qs /\ new_status = Complete /\ tasks[i].status = Pending
                       THEN [tasks[i] EXCEPT !.status = Complete, !.completed_date = now]
                       ELSE IF i \in qs /\ new_status # Complete
                               /\ tasks[i].status = Complete
                            THEN [tasks[i] EXCEPT !.status = Pending,
                                                  !.completed_date = NoDate]
                            ELSE tasks[i]]
    /\ last' = Did("bulk_status_htmx", NoTask, NoTask, NoTask, Unused)
    /\ UNCHANGED <<nextId, adds, today, tasks_all, tasks_folder>>

clear_htmx(u) ==
    /\ tasks' = [i \in DOMAIN tasks |->
                    IF i \in InScope(tasks, u) /\ tasks[i].status = Complete
                    THEN [tasks[i] EXCEPT !.archived = TRUE]
                    ELSE tasks[i]]
    /\ last' = Did("clear_htmx", NoTask, NoTask, NoTask, Unused)
    /\ UNCHANGED <<nextId, adds, today, tasks_all, tasks_folder>>

\* ---------------------------------------------------------- the calendar
NextDay ==
    /\ today < MaxDay
    /\ today' = today + 1
    /\ last' = Did("midnight", NoTask, NoTask, NoTask, Unused)
    /\ UNCHANGED <<tasks, nextId, adds, tasks_all, tasks_folder>>

\* the payloads of the lifecycle runs
Payloads == PayloadSet(Contents, {NoDate}, {"", "weekly"}, {Pending, Complete})

\* the lifecycle of one added task under every handler, on one day, in a
\* table of at most MaxTasks rows
Next ==
    /\ \/ \E u \in Users : add_htmx(u, <<"a", "b">>, NoFolder)
       \/ \E id \in TaskIds, p \in Payloads, u \in Users : edit(id, p, u)
       \/ \E id \in TaskIds, p \in Payloads, u \in Users : task_form(id, p, u)
       \/ \E id \in TaskIds : status(id)
       \/ \E id \in TaskIds : status_htmx(id)
       \/ \E s \in {Pending, Complete}, u \in Users : bulk_status_htmx(s, u)
       \/ \E u \in Users : clear_htmx(u)
    /\ nextId' <= MaxTasks + 1
    /\ UNCHANGED <<hist, reqs, mail, response, session>>

Spec == Init /\ [][Next]_vars

\* the payloads of the generation runs
SpawnPayloads ==
    PayloadSet({c \in Contents : c.folder = NoFolder}, {NoDate}, {"", "weekly"}, {Pending})

\* completions, reverts and archiving around one template, in a table of at
\* most MaxSpawnTasks rows
NextSpawn ==
    /\ \/ \E u \in Users : add_htmx(u, <<"a", "b">>, NoFolder)
       \/ \E id \in TaskIds, p \in SpawnPayloads, u \in Users : edit(id, p, u)
       \/ \E id \in TaskIds : status(id)
       \/ \E id \in TaskIds : status_htmx(id)
       \/ \E u \in Users : clear_htmx(u)
    /\ nextId' <= MaxSpawnTasks + 1
    /\ UNCHANGED <<hist, reqs, mail, response, session>>

SpecSpawn == Init /\ [][NextSpawn]_vars

\* the payloads of the toggle runs
TogglePayloads ==
    PayloadSet({c \in Contents : c.folder = NoFolder}, {NoDate}, {"weekly"}, {Pending})

\* toggles of one added task, its template and instances over several days,
\* with the toggle history kept
NextToggle ==
    /\ \/ \E u \in Users : add_htmx(u, <<"a", "b">>, NoFolder) /\ hist' = NoHistory
       \/ \E id \in TaskIds, p \in TogglePayloads, u \in Users :
             task_form(id, p, u) /\ hist' = NoHistory
       \/ \E id \in TaskIds : status(id) /\ hist' = Toggled(id)
       \/ \E id \in TaskIds : status_htmx(id) /\ hist' = Toggled(id)
       \/ NextDay /\ hist' = NoHistory
    /\ nextId' <= MaxTasks + 1
    /\ UNCHANGED <<reqs, mail, response, session>>

SpecToggle == Init /\ [][NextToggle]_vars

\* the payloads of the recurrence runs
DerivePayloads == PayloadSet(Contents, DueDates \cup {NoDate}, Recurrences, {Pending})

\* edits of one added task, its template and instances with every recurrence
\* and due date
NextDerive ==
    /\ \/ \E u \in Users : add_htmx(u, <<"a", "b">>, NoFolder)
       \/ \E id \in TaskIds, p \in DerivePayloads, u \in Users : edit(id, p, u)
       \/ \E id \in TaskIds, p \in DerivePayloads, u \in Users : task_form(id, p, u)
    /\ nextId' <= MaxTasks + 1
    /\ UNCHANGED <<hist, reqs, mail, response, session>>

SpecDerive == Init /\ [][NextDerive]_vars

\* ------------------------------------- status_htmx, one query at a time
\* request r stands at pc
At(r, pc) == reqs[r].pc = pc

\* get_object_or_404(Task, pk=id): the request reads its task
load(r, id) ==
    /\ At(r, "idle")
    /\ id \in DOMAIN tasks
    /\ reqs' = [reqs EXCEPT ![r] = [Idle EXCEPT !.pc = "save", !.id = id,
                                                !.task = tasks[id]]]
    /\ last' = Did("load", id, NoTask, NoTask, Unused)
    /\ UNCHANGED <<tasks, nextId, adds, today, tasks_all, tasks_folder>>

\* the toggle of the task object and task.save(), which writes every column
\* of the object; then the test of task.status and task.parent_task
save(r) ==
    /\ At(r, "save")
    /\ LET t == ToggleStatus(reqs[r].task, DateOfDay(today))
       IN  /\ tasks' = Insert(tasks, reqs[r].id, t)
           /\ reqs' = [reqs EXCEPT ![r].task = t,
                                   ![r].pc = IF t.status = Complete /\ t.parent_task # NoTask
                                             THEN "parent" ELSE "done"]
    /\ last' = Did("save", reqs[r].id, NoTask, NoTask, Unused)
    /\ UNCHANGED <<nextId, adds, today, tasks_all, tasks_folder>>

\* parent = task.parent_task: the request reads the template; then the test
\* of parent.is_recurring and parent.archived
parent(r) ==
    /\ At(r, "parent")
    /\ reqs[r].task.parent_task \in DOMAIN tasks
    /\ LET par == tasks[reqs[r].task.parent_task]
       IN  reqs' = [reqs EXCEPT ![r].parent = par,
                                ![r].pc = IF par.is_recurring /\ ~par.archived
                                          THEN "has_pending" ELSE "done"]
    /\ last' = Did("parent", reqs[r].id, NoTask, NoTask, Unused)
    /\ UNCHANGED <<tasks, nextId, adds, today, tasks_all, tasks_folder>>

\* has_pending = Task.objects.filter(...).exists()
check_pending(r) ==
    /\ At(r, "has_pending")
    /\ reqs' = [reqs EXCEPT ![r].pc = IF has_pending(tasks, reqs[r].task.parent_task)
                                      THEN "done" ELSE "create"]
    /\ last' = Did("has_pending", reqs[r].id, NoTask, NoTask, Unused)
    /\ UNCHANGED <<tasks, nextId, adds, today, tasks_all, tasks_folder>>

\* create with the look for a pending instance made again in the same step
create_Rechecked(r) ==
    /\ At(r, "create")
    /\ reqs[r].task.parent_task \in DOMAIN tasks
    /\ IF has_pending(tasks, reqs[r].task.parent_task)
       THEN /\ reqs' = [reqs EXCEPT ![r].pc = "stamp"]
            /\ UNCHANGED <<tasks, nextId>>
       ELSE /\ tasks' = Insert(tasks, nextId,
                               NextInstance(reqs[r].parent, reqs[r].task.parent_task,
                                            DateOfDay(today)))
            /\ nextId' = nextId + 1
            /\ reqs' = [reqs EXCEPT ![r].pc = "stamp", ![r].created = nextId]
    /\ last' = Did("create", reqs[r].id, NoTask, NoTask, Unused)
    /\ UNCHANGED <<adds, today, tasks_all, tasks_folder>>

\* Task.objects.create(...) from the parent object the request holds
create(r) ==
    /\ At(r, "create")
    /\ reqs[r].task.parent_task \in DOMAIN tasks
    /\ tasks' = Insert(tasks, nextId,
                       NextInstance(reqs[r].parent, reqs[r].task.parent_task,
                                    DateOfDay(today)))
    /\ nextId' = nextId + 1
    /\ reqs' = [reqs EXCEPT ![r].pc = "stamp", ![r].created = nextId]
    /\ last' = Did("create", reqs[r].id, nextId, NoTask, Unused)
    /\ UNCHANGED <<adds, today, tasks_all, tasks_folder>>

\* parent.last_generated = date.today(); parent.save(update_fields=[...])
stamp(r) ==
    /\ At(r, "stamp")
    /\ reqs[r].task.parent_task \in DOMAIN tasks
    /\ tasks' = [tasks EXCEPT ![reqs[r].task.parent_task].last_generated =
                                  DateOfDay(today)]
    /\ reqs' = [reqs EXCEPT ![r].pc = "done"]
    /\ last' = Did("stamp", reqs[r].id, NoTask, NoTask, Unused)
    /\ UNCHANGED <<nextId, adds, today, tasks_all, tasks_folder>>

\* no request is between its first and its last query
Quiet == \A r \in Requests : reqs[r].pc \in {"idle", "done"}

\* the payloads of the concurrent runs
RacePayloads ==
    PayloadSet({c \in Contents : c.folder = NoFolder}, {NoDate}, {"", "weekly"}, {Pending})

\* one template set up by edits, then two status_htmx requests whose queries
\* interleave, in a table of at most MaxRaceTasks rows
NextRace ==
    /\ \/ /\ Quiet
          /\ \E u \in Users : add_htmx(u, <<"a", "b">>, NoFolder)
          /\ UNCHANGED reqs
       \/ /\ Quiet
          /\ \E id \in TaskIds, p \in RacePayloads, u \in Users : edit(id, p, u)
          /\ UNCHANGED reqs
       \/ \E r \in Requests, id \in TaskIds : load(r, id)
       \/ \E r \in Requests : save(r)
       \/ \E r \in Requests : parent(r)
       \/ \E r \in Requests : check_pending(r)
       \/ \E r \in Requests : create(r)
       \/ \E r \in Requests : stamp(r)
    /\ nextId' <= MaxRaceTasks + 1
    /\ UNCHANGED <<hist, mail, response, session>>

SpecRace == Init /\ [][NextRace]_vars

\* --------------------------------------------------------- config/email.py
\* None of user.notification_email
NoEmail == "None"

\* the notification_email and email a user can have
Mailboxes ==
    {[notification_email |-> n, email |-> e] : n \in {NoEmail, "", "n@x"}, e \in {"", "u@x"}}

\* what the mail transport does with a message: it takes it, or it raises an
\* exception whose str() is text
Transports ==
    {[raises |-> FALSE, text |-> ""], [raises |-> TRUE, text |-> "refused"],
     [raises |-> TRUE, text |-> ""]}

ReminderTypes == {"due_today", "due_soon", "overdue", "other"}

\* user.notification_email or user.email
recipient(user) ==
    IF user.notification_email # NoEmail /\ user.notification_email # ""
    THEN user.notification_email
    ELSE user.email

\* subject_map.get(reminder_type, f"Task Reminder: {task.title}")
subject(task, reminder_type) ==
    CASE reminder_type = "due_today" -> <<"Task Due Today: ", task.title>>
      [] reminder_type = "due_soon" -> <<"Task Due Soon: ", task.title>>
      [] reminder_type = "overdue" -> <<"Overdue Task: ", task.title>>
      [] OTHER -> <<"Task Reminder: ", task.title>>

\* the lines of the body that show a field when the task has it
FieldLines(task) ==
    (IF task.due_date # NoDate THEN <<<<"Due date: ", task.due_date>>>> ELSE <<>>)
    \o (IF task.due_time # NoTime THEN <<<<"Due time: ", task.due_time>>>> ELSE <<>>)
    \o (IF task.folder # NoFolder THEN <<<<"Folder: ", task.folder>>>> ELSE <<>>)

_build_body(task, reminder_type) ==
    (CASE reminder_type = "due_today" -> <<<<"is due today", task.title>>>>
       [] reminder_type = "due_soon" -> <<<<"is due soon at", task.title, task.due_time>>>>
       [] reminder_type = "overdue" -> <<<<"is overdue", task.title>>>>
       [] OTHER -> <<>>)
    \o <<<<>>>> \o FieldLines(task) \o <<<<>>, <<"-- SITE_NAME">>>>

\* the line of the digest for one task
DigestLine(task) ==
    <<"- ", task.title>>
    \o (IF task.due_date # NoDate THEN <<"(due", task.due_date>> ELSE <<>>)
    \o (IF task.folder # NoFolder THEN <<"[", task.folder>> ELSE <<>>)

\* the digest lines of the tasks ids, in the order of their ids
RECURSIVE DigestLines(_, _)
DigestLines(db, ids) ==
    IF ids = {} THEN <<>>
    ELSE LET i == CHOOSE k \in ids : \A j \in ids : k <= j
         IN  <<DigestLine(db[i])>> \o DigestLines(db, ids \ {i})

\* send_mail(subject, body, SERVER_EMAIL, [recipient], fail_silently=False)
\* called with nothing around it to catch what it raises
TrySend_Unguarded(transport) ==
    IF transport.raises
    THEN [raised |-> TRUE, exception |-> transport.text]
    ELSE [raised |-> FALSE, returned |-> [success |-> TRUE]]

\* try: send_mail(...); return {"success": True}
\* except Exception as e: return {"success": False, "error": str(e)}
TrySend(transport) ==
    IF transport.raises
    THEN [raised |-> FALSE, returned |-> [success |-> FALSE, error |-> transport.text]]
    ELSE [raised |-> FALSE, returned |-> [success |-> TRUE]]

\* either mail function once subject and body are made: the early return
\* when there is no recipient, else the send
Deliver(op, user, subj, body, transport) ==
    LET to == recipient(user)
    IN  IF to = NoEmail \/ to = ""
        THEN [op |-> op, user |-> user, transport |-> transport, sent |-> <<>>,
              outcome |-> [raised |-> FALSE,
                           returned |-> [success |-> FALSE,
                                         error |-> "User has no email address"]]]
        ELSE [op |-> op, user |-> user, transport |-> transport,
              sent |-> <<[to |-> to, subject |-> subj, body |-> body]>>,
              outcome |-> TrySend(transport)]

send_task_reminder_email(user, id, reminder_type, transport) ==
    /\ id \in DOMAIN tasks
    /\ mail' = Deliver("send_task_reminder_email", user,
                       subject(tasks[id], reminder_type),
                       _build_body(tasks[id], reminder_type), transport)
    /\ last' = Did("send_task_reminder_email", id, NoTask, NoTask, Unused)
    /\ UNCHANGED <<tasks, nextId, adds, today, tasks_all, tasks_folder>>

send_past_due_digest_email(user, ids, transport) ==
    /\ ids \subseteq DOMAIN tasks
    /\ mail' = Deliver("send_past_due_digest_email", user, <<"Past Due Tasks">>,
                       <<<<"You have the following past due tasks:">>, <<>>>>
                       \o DigestLines(tasks, ids) \o <<<<>>, <<"-- SITE_NAME">>>>,
                       transport)
    /\ last' = Did("send_past_due_digest_email", NoTask, NoTask, NoTask, Unused)
    /\ UNCHANGED <<tasks, nextId, adds, today, tasks_all, tasks_folder>>

\* the payloads of the mail runs
MailPayloads == PayloadSet(Contents, {NoDate, <<2024, 3, 15>>}, {""}, {Pending})

\* reminders and digests about the added tasks
NextMail ==
    /\ \/ \E u \in Users : add_htmx(u, <<"a", "b">>, NoFolder) /\ UNCHANGED mail
       \/ \E id \in TaskIds, p \in MailPayloads, u \in Users :
             task_form(id, p, u) /\ UNCHANGED mail
       \/ \E user \in Mailboxes, id \in TaskIds, ty \in ReminderTypes, tr \in Transports :
             send_task_reminder_email(user, id, ty, tr)
       \/ \E user \in Mailboxes, ids \in SUBSET DOMAIN tasks, tr \in Transports :
             send_past_due_digest_email(user, ids, tr)
    /\ nextId' <= MaxTasks + 1
    /\ UNCHANGED <<hist, reqs, response, session>>

SpecMail == Init /\ [][NextMail]_vars

\* ------------------------------------------------------ a write that fails
\* the table after each write of status_htmx(id): task.save(), then, when an
\* instance is generated, Task.objects.create(...) and parent.save(...)
StatusWrites(db, id, nid, now) ==
    LET saved == [db EXCEPT ![id] = ToggleStatus(db[id], now)]
        p == saved[id].parent_task
        made == Insert(saved, nid, NextInstance(saved[p], p, now))
    IN  IF ShouldGenerate(saved, id)
        THEN <<saved, made, [made EXCEPT ![p].last_generated = now]>>
        ELSE <<saved>>

\* the table after each write of an edit of an instance: task.save(), then
\* parent_task.save(), or parent_task.delete() and task.save()
InstanceWrites(db, id, task, recurrence, mode) ==
    LET par == db[id].parent_task
        saved == [db EXCEPT ![id] = task]
        gone == DeleteTemplate(saved, par, mode)
    IN  IF recurrence # ""
        THEN <<saved, EditInstance(db, id, task, recurrence, mode)>>
        ELSE <<saved, gone, EditInstance(db, id, task, recurrence, mode)>>

\* the table after each write of an edit of a task without parent_task:
\* task.save(), then Task.objects.create(...) and the save of
\* last_generated, or latest_instance.save() for the instance li
TemplateWrites(db, id, task, recurrence, was_recurring, li, nid, now) ==
    LET t == SetRecurrence(task, recurrence)
        saved == [db EXCEPT ![id] = t]
        made == Insert(saved, nid, FirstInstance(t, id))
    IN  IF t.is_recurring /\ ~was_recurring
        THEN <<saved, made, [made EXCEPT ![id].last_generated = now]>>
        ELSE IF t.is_recurring /\ was_recurring /\ li # NoTask
             THEN <<saved, [saved EXCEPT ![li] = SyncInstance(saved[li], t)]>>
             ELSE <<saved>>

\* Persisted with the request's writes undone when one of them fails
Persisted_RolledBack(db, writes, k) == db

\* what is in the table when write k of a request raises: every save() and
\* create() commits on its own, so the writes before it stay
Persisted(db, writes, k) == IF k = 1 THEN db ELSE writes[k - 1]

\* the response to a request whose write k raised
ServerError(k) == [status |-> 500, write |-> k]

\* status_htmx(id) with its k-th write raising
status_htmx_fails(id, k) ==
    /\ id \in DOMAIN tasks
    /\ LET writes == StatusWrites(tasks, id, nextId, DateOfDay(today))
       IN  /\ k \in 1..Len(writes)
           /\ tasks' = Persisted(tasks, writes, k)
    /\ nextId' = IF nextId \in DOMAIN tasks' THEN nextId + 1 ELSE nextId
    /\ response' = ServerError(k)
    /\ last' = Did("status_htmx", id, NoTask, NoTask, Unused)
    /\ UNCHANGED <<adds, today, tasks_all, tasks_folder>>

\* edit(id, p, u) with its k-th write raising
edit_fails(id, p, u, k) ==
    /\ id \in DOMAIN tasks
    /\ LET task == FormSave(tasks[id], p, u)
           latest == LatestCandidates([tasks EXCEPT ![id] = task], id)
       IN  \E mode \in OnDelete, li \in IF latest = {} THEN {NoTask} ELSE latest :
              LET writes == IF tasks[id].parent_task # NoTask
                            THEN InstanceWrites(tasks, id, task, p.recurrence, mode)
                            ELSE TemplateWrites(tasks, id, task, p.recurrence,
                                                tasks[id].is_recurring, li, nextId,
                                                DateOfDay(today))
              IN  /\ k \in 1..Len(writes)
                  /\ tasks' = Persisted(tasks, writes, k)
    /\ nextId' = IF nextId \in DOMAIN tasks' THEN nextId + 1 ELSE nextId
    /\ response' = ServerError(k)
    /\ last' = Did("edit", id, NoTask, NoTask, p)
    /\ UNCHANGED <<adds, today, tasks_all, tasks_folder>>

\* the response to a request that ran to its end
Ok == [status |-> 200]

\* the payloads of the runs with failing writes
FailPayloads == PayloadSet(Contents, {NoDate}, {"", "weekly"}, {Pending})

\* the writes a request can make
Writes == 1..3

\* edits and completions around one template, each able to fail at any of
\* its writes
NextFail ==
    /\ \/ \E u \in Users : add_htmx(u, <<"a", "b">>, NoFolder) /\ response' = Ok
       \/ \E id \in TaskIds, p \in FailPayloads, u \in Users :
             edit(id, p, u) /\ response' = Ok
       \/ \E id \in TaskIds : status_htmx(id) /\ response' = Ok
       \/ \E id \in TaskIds, p \in FailPayloads, u \in Users, k \in Writes :
             edit_fails(id, p, u, k)
       \/ \E id \in TaskIds, k \in Writes : status_htmx_fails(id, k)
    /\ nextId' <= MaxTasks + 1
    /\ UNCHANGED <<hist, reqs, mail, session>>

SpecFail == Init /\ [][NextFail]_vars

\* ------------------------------------------- the edit requests as posted
\* TaskForm.is_valid() letting any priority pass
is_valid_AnyPriority(p) ==
    /\ p.title # <<>>
    /\ p.recurrence \in Recurrences
    /\ p.status \in {Pending, Complete}

\* TaskForm.is_valid(): a title, a priority from 1 to 10, a recurrence and a
\* status of the choices
is_valid(p) ==
    /\ p.title # <<>>
    /\ p.priority \in 1..10
    /\ p.recurrence \in Recurrences
    /\ p.status \in {Pending, Complete}

\* raise Http404
NotFound == [status |-> 404]

\* redirect("tasks")
Redirect == [status |-> 302]

\* HttpResponse(status=204)
NoContent == [status |-> 204]

\* the request changes nothing in the store
Untouched(op, id, p) ==
    /\ last' = Did(op, id, NoTask, NoTask, p)
    /\ UNCHANGED <<tasks, nextId, adds, today, tasks_all, tasks_folder>>

\* edit_POST saving a payload whose priority the form rejects
edit_POST_SavesBadPriority(id, p, u) ==
    IF id \notin DOMAIN tasks
    THEN Untouched("edit", id, p) /\ response' = NotFound
    ELSE IF is_valid_AnyPriority(p)
         THEN edit(id, p, u) /\ response' = Redirect
         ELSE Untouched("edit", id, p) /\ response' = Redirect

\* POST /tasks/<id>/edit with any id and any payload
edit_POST(id, p, u) ==
    IF id \notin DOMAIN tasks
    THEN Untouched("edit", id, p) /\ response' = NotFound
    ELSE IF is_valid(p)
         THEN edit(id, p, u) /\ response' = Redirect
         ELSE Untouched("edit", id, p) /\ response' = Redirect

\* POST /tasks/<id>/form with any id and any payload
task_form_POST(id, p, u) ==
    IF id \notin DOMAIN tasks
    THEN Untouched("task_form", id, p) /\ response' = NotFound
    ELSE IF is_valid(p)
         THEN task_form(id, p, u) /\ response' = NoContent
         ELSE Untouched("task_form", id, p) /\ response' = Ok

\* payloads the form rejects: a priority above 10, no title, a recurrence
\* that is no choice
BadPayloads ==
    {[folder |-> 1, title |-> <<"C">>, priority |-> 11, due_time |-> 1,
      due_date |-> NoDate, recurrence |-> "weekly", status |-> Complete],
     [folder |-> 1, title |-> <<>>, priority |-> 2, due_time |-> 1,
      due_date |-> NoDate, recurrence |-> "", status |-> Pending],
     [folder |-> 1, title |-> <<"C">>, priority |-> 2, due_time |-> 1,
      due_date |-> NoDate, recurrence |-> "hourly", status |-> Pending]}

\* the payloads of the request runs
RequestPayloads ==
    PayloadSet(Contents, {NoDate}, {"", "weekly"}, {Pending}) \cup BadPayloads

\* edit requests with ids that exist and ids that do not, with payloads the
\* form takes and payloads it rejects
NextRequest ==
    /\ \/ \E u \in Users : add_htmx(u, <<"a", "b">>, NoFolder) /\ response' = Ok
       \/ \E id \in TaskIds, p \in RequestPayloads, u \in Users : edit_POST(id, p, u)
       \/ \E id \in TaskIds, p \in RequestPayloads, u \in Users : task_form_POST(id, p, u)
    /\ nextId' <= MaxTasks + 1
    /\ UNCHANGED <<hist, reqs, mail, session>>

SpecRequest == Init /\ [][NextRequest]_vars

\* ------------------------------------------------------ the task filter
\* the session keeps tasks_filter (a dict of form values), tasks_filter_stash
\* and tasks_page under their keys, a key that was never set or was popped
\* being out of its DOMAIN; tasks_all is session.get("tasks_all", False) and
\* tasks_folder is request.user.tasks_folder.  A value of a dict is a pair
\* of its type and itself.
StrVal(s) == <<"str", s>>
IntVal(n) == <<"int", n>>
None == <<"None">>

\* d.get(k, default), d[k] = v and d.pop(k, None)
Get(d, k, default) == IF k \in DOMAIN d THEN d[k] ELSE default
Put(d, k, v) == [x \in DOMAIN d \cup {k} |-> IF x = k THEN v ELSE d[x]]
Pop(d, k) == [x \in DOMAIN d \ {k} |-> d[x]]

\* date.strftime("%Y-%m-%d"), as the characters of the result
Digit(n) == <<"0", "1", "2", "3", "4", "5", "6", "7", "8", "9">>[n + 1]
ZeroPadded(n, width) ==
    [i \in 1..width |->
        Digit((n \div (IF i = width THEN 1
                       ELSE IF i = width - 1 THEN 10
                       ELSE IF i = width - 2 THEN 100 ELSE 1000)) % 10)]
strftime(d) ==
    ZeroPadded(d[1], 4) \o <<"-">> \o ZeroPadded(d[2], 2) \o <<"-">> \o ZeroPadded(d[3], 2)

\* f"-{order}" for the columns of the list
Descending(order) ==
    CASE order = "title" -> "-title"
      [] order = "due_date" -> "-due_date"
      [] order = "priority" -> "-priority"

\* the filter the due toggle applies
DueFilter ==
    [k \in {"filter_label", "status", "due_date_max", "sort"} |->
        CASE k = "filter_label" -> StrVal("due")
          [] k = "status" -> StrVal("Pending")
          [] k = "due_date_max" -> StrVal(strftime(DateOfDay(today)))
          [] k = "sort" -> StrVal("due_date")]

\* the session state a handler finds, as its readers take it, and whether a
\* stash is kept
Snapshot ==
    <<Get(session, "tasks_filter", EmptyDict), tasks_all, tasks_folder,
      "tasks_filter_stash" \in DOMAIN session>>

\* the view tasks_all
tasks_all_view ==
    /\ tasks_all' = TRUE
    /\ tasks_folder' = NoFolder
    /\ last' = Did("tasks_all", NoTask, NoTask, NoTask, Unused)
    /\ UNCHANGED <<tasks, nextId, adds, today, session>>

\* tasks_due restoring the filter and the flag, but not the user's folder
tasks_due_KeepsFolder ==
    /\ LET current_filter == Get(session, "tasks_filter", EmptyDict)
           stash == Get(session, "tasks_filter_stash", None)
       IN  IF Get(current_filter, "filter_label", None) = StrVal("due")
              /\ "tasks_filter_stash" \in DOMAIN session
           THEN /\ session' = Pop(Put(session, "tasks_filter", stash.tasks_filter),
                                  "tasks_filter_stash")
                /\ tasks_all' = stash.tasks_all
                /\ tasks_folder' = tasks_folder
           ELSE /\ session' =
                      Put(Put(session, "tasks_filter_stash",
                              [tasks_filter |-> current_filter,
                               tasks_all |-> tasks_all,
                               tasks_folder |-> tasks_folder]),
                          "tasks_filter", DueFilter)
                /\ tasks_all' = TRUE
                /\ tasks_folder' = NoFolder
    /\ last' = Did("tasks_due", NoTask, NoTask, NoTask, Unused)
    /\ UNCHANGED <<tasks, nextId, adds, today>>

\* tasks_due; "stash is not None" is the key being in the session
tasks_due ==
    /\ LET current_filter == Get(session, "tasks_filter", EmptyDict)
           stash == Get(session, "tasks_filter_stash", None)
       IN  IF Get(current_filter, "filter_label", None) = StrVal("due")
              /\ "tasks_filter_stash" \in DOMAIN session
           THEN /\ session' = Pop(Put(session, "tasks_filter", stash.tasks_filter),
                                  "tasks_filter_stash")
                /\ tasks_all' = stash.tasks_all
                /\ tasks_folder' = stash.tasks_folder
           ELSE /\ session' =
                      Put(Put(session, "tasks_filter_stash",
                              [tasks_filter |-> current_filter,
                               tasks_all |-> tasks_all,
                               tasks_folder |-> tasks_folder]),
                          "tasks_filter", DueFilter)
                /\ tasks_all' = TRUE
                /\ tasks_folder' = NoFolder
    /\ last' = Did("tasks_due", NoTask, NoTask, NoTask, Unused)
    /\ UNCHANGED <<tasks, nextId, adds, today>>

\* task_filter (POST) leaving the stash in the session
task_filter_KeepsStash(POST) ==
    /\ session' = Put(session, "tasks_filter",
                      Put(Pop(POST, "csrfmiddlewaretoken"), "filter_label", StrVal("custom")))
    /\ last' = Did("task_filter", NoTask, NoTask, NoTask, Unused)
    /\ UNCHANGED <<tasks, nextId, adds, today, tasks_all, tasks_folder>>

\* task_filter, request.method == "POST"
task_filter(POST) ==
    /\ LET filter_data == Put(Pop(POST, "csrfmiddlewaretoken"),
                              "filter_label", StrVal("custom"))
       IN  session' = Pop(Put(session, "tasks_filter", filter_data),
                          "tasks_filter_stash")
    /\ last' = Did("task_filter", NoTask, NoTask, NoTask, Unused)
    /\ UNCHANGED <<tasks, nextId, adds, today, tasks_all, tasks_folder>>

tasks_order_by(order) ==
    /\ LET filter_data == Get(session, "tasks_filter", EmptyDict)
           current_sort == Get(filter_data, "sort", StrVal("priority"))
           new_sort == IF current_sort = StrVal(order) THEN Descending(order)
                       ELSE IF current_sort = StrVal(Descending(order)) THEN order
                       ELSE order
       IN  session' = Pop(Put(Put(session, "tasks_filter",
                                  Put(filter_data, "sort", StrVal(new_sort))),
                              "tasks_page", IntVal(1)),
                          "tasks_filter_stash")
    /\ last' = Did("tasks_order_by", NoTask, NoTask, NoTask, Unused)
    /\ UNCHANGED <<tasks, nextId, adds, today, tasks_all, tasks_folder>>

task_filter_default ==
    /\ session' = Pop(Pop(session, "tasks_filter"), "tasks_filter_stash")
    /\ last' = Did("task_filter_default", NoTask, NoTask, NoTask, Unused)
    /\ UNCHANGED <<tasks, nextId, adds, today, tasks_all, tasks_folder>>

filter_priority_htmx(priority_value) ==
    /\ LET filter_data == Get(session, "tasks_filter", EmptyDict)
       IN  session' = Pop(Put(session, "tasks_filter",
                              Put(filter_data, "priority",
                                  IF priority_value = 0 THEN StrVal("")
                                  ELSE IntVal(priority_value))),
                          "tasks_filter_stash")
    /\ last' = Did("filter_priority_htmx", NoTask, NoTask, NoTask, Unused)
    /\ UNCHANGED <<tasks, nextId, adds, today, tasks_all, tasks_folder>>

\* the forms the filter dialog posts
FilterForms ==
    {[k \in {"csrfmiddlewaretoken", "status"} |->
         IF k = "status" THEN StrVal("Complete") ELSE StrVal("t")],
     [k \in {"csrfmiddlewaretoken", "filter_label", "sort"} |->
         CASE k = "filter_label" -> StrVal("due")
           [] k = "sort" -> StrVal("title")
           [] k = "csrfmiddlewaretoken" -> StrVal("t")]}

\* the columns a header click sorts by, the priorities the list filters by
Orders == {"title", "due_date"}
PriorityValues == {0, 2}

\* the session history: the session state before the request that ran last
\* (before) and, when that request and the one before it were both
\* tasks_due, before that one (before2)
Visited(op) ==
    [id |-> NoTask, before |-> Snapshot,
     before2 |-> IF op = "tasks_due" /\ last.op = "tasks_due" THEN hist.before
                 ELSE Unused]

\* a user who has a folder selected or none, with a new session
InitSession ==
    /\ tasks = <<>>
    /\ nextId = 1
    /\ adds = 0
    /\ today = 1
    /\ tasks_all = FALSE
    /\ tasks_folder \in {NoFolder, 1}
    /\ last = Did("init", NoTask, NoTask, NoTask, Unused)
    /\ hist = NoHistory
    /\ reqs = [r \in Requests |-> Idle]
    /\ mail = NoMail
    /\ response = NoResponse
    /\ session = EmptyDict

\* the filter requests of one session, over several days
NextSession ==
    /\ \/ tasks_all_view /\ hist' = Visited("tasks_all")
       \/ tasks_due /\ hist' = Visited("tasks_due")
       \/ \E POST \in FilterForms : task_filter(POST) /\ hist' = Visited("task_filter")
       \/ \E order \in Orders : tasks_order_by(order) /\ hist' = Visited("tasks_order_by")
       \/ task_filter_default /\ hist' = Visited("task_filter_default")
       \/ \E v \in PriorityValues :
             filter_priority_htmx(v) /\ hist' = Visited("filter_priority_htmx")
       \/ NextDay /\ hist' = Visited("midnight") /\ UNCHANGED session
    /\ UNCHANGED <<reqs, mail, response>>

SpecSession == InitSession /\ [][NextSession]_vars

\* ================================================================ claims
\* the Pending, non-archived instances of task t in table db
ActiveInstances(db, t) ==
    {i \in DOMAIN db : db[i].parent_task = t /\ db[i].status = Pending /\ ~db[i].archived}

\* the tasks a step creates and deletes
Created == DOMAIN tasks' \ DOMAIN tasks

Deleted == DOMAIN tasks \ DOMAIN tasks'

\* the step is handler op applied to task id
Ran(ops, id) == last'.op \in ops /\ last'.id = id

\* C1: every task has at most one instance that is Pending and not archived
C1_AtMostOneActiveInstance ==
    \A t \in DOMAIN tasks : Cardinality(ActiveInstances(tasks, t)) <= 1

\* C2: status_htmx completing a Pending instance whose parent is recurring
\* and not archived and has no other Pending non-archived instance creates
\* exactly one task: an instance of the parent, Pending, due today, with the
\* parent's user, folder, title, priority and due_time; and the parent's
\* last_generated becomes today
C2_CompletionSpawnsFromTemplate ==
    [][\A id \in DOMAIN tasks :
          LET par == tasks[id].parent_task
          IN  (/\ Ran({"status_htmx"}, id)
               /\ tasks[id].status = Pending
               /\ par # NoTask
               /\ tasks[par].is_recurring
               /\ ~tasks[par].archived
               /\ ActiveInstances(tasks, par) \ {id} = {})
              => /\ Cardinality(Created) = 1
                 /\ Deleted = {}
                 /\ \A n \in Created :
                       /\ tasks'[n].parent_task = par
                       /\ tasks'[n].status = Pending
                       /\ tasks'[n].due_date = DateOfDay(today)
                       /\ tasks'[n].due_time = tasks[par].due_time
                       /\ tasks'[n].user = tasks[par].user
                       /\ tasks'[n].folder = tasks[par].folder
                       /\ tasks'[n].title = tasks[par].title
                       /\ tasks'[n].priority = tasks[par].priority
                 /\ tasks'[par].last_generated = DateOfDay(today)]_vars

\* C2 happened: status_htmx completed an instance and created the next one,
\* whose title, folder, priority and due time are not the completed one's
C2_Witness ==
    /\ last.op = "status_htmx"
    /\ last.created # NoTask
    /\ tasks[last.id].status = Complete
    /\ tasks[last.created].parent_task = tasks[last.id].parent_task
    /\ tasks[last.created].title # tasks[last.id].title
    /\ tasks[last.created].folder # tasks[last.id].folder
    /\ tasks[last.created].priority # tasks[last.id].priority
    /\ tasks[last.created].due_time # tasks[last.id].due_time

\* C3: a toggle completing a Pending instance while another instance of its
\* parent is Pending and not archived creates no task and leaves the parent's
\* last_generated as it was
C3_NoSpawnWhileAnotherPending ==
    [][\A id \in DOMAIN tasks :
          LET par == tasks[id].parent_task
          IN  (/\ Ran(Toggles, id)
               /\ tasks[id].status = Pending
               /\ par # NoTask
               /\ ActiveInstances(tasks, par) \ {id} # {})
              => /\ Created = {}
                 /\ tasks'[id].status = Complete
                 /\ tasks'[par].last_generated = tasks[par].last_generated]_vars

\* C3 happened: status_htmx completed an instance of a recurring, non-archived
\* template that has another Pending non-archived instance
C3_Witness ==
    /\ last.op = "status_htmx"
    /\ last.created = NoTask
    /\ tasks[last.id].status = Complete
    /\ tasks[last.id].parent_task # NoTask
    /\ tasks[tasks[last.id].parent_task].is_recurring
    /\ ~tasks[tasks[last.id].parent_task].archived
    /\ ActiveInstances(tasks, tasks[last.id].parent_task) # {}

\* C4: a toggle of a Complete instance makes it Pending with no
\* completed_date, creates no task and changes no field of its parent
C4_RevertClearsAndSpawnsNothing ==
    [][\A id \in DOMAIN tasks :
          LET par == tasks[id].parent_task
          IN  (/\ Ran(Toggles, id)
               /\ tasks[id].status = Complete
               /\ par # NoTask)
              => /\ tasks'[id].status = Pending
                 /\ tasks'[id].completed_date = NoDate
                 /\ Created = {}
                 /\ Deleted = {}
                 /\ tasks'[par] = tasks[par]]_vars

\* C4 happened: status_htmx reverted an instance of a recurring, non-archived
\* template that has no other Pending non-archived instance
C4_Witness ==
    /\ last.op = "status_htmx"
    /\ tasks[last.id].status = Pending
    /\ tasks[last.id].parent_task # NoTask
    /\ tasks[tasks[last.id].parent_task].is_recurring
    /\ ~tasks[tasks[last.id].parent_task].archived
    /\ ActiveInstances(tasks, tasks[last.id].parent_task) = {last.id}

\* C5 as stated: after two toggles in a row the task has the status and the
\* completed_date it had before them
C5_TwoTogglesRestoreAll ==
    hist.before2 # Unused => StatusOf(tasks[hist.id]) = hist.before2

\* C5 amended: after two toggles in a row the task has the status it had
\* before them, and its completed_date is null if that status is Pending and
\* today's date if it is Complete
C5_TwoTogglesRestoreStatus ==
    hist.before2 # Unused =>
        /\ tasks[hist.id].status = hist.before2[1]
        /\ tasks[hist.id].completed_date =
              IF hist.before2[1] = Complete THEN DateOfDay(today) ELSE NoDate

\* C5 happened: two toggles in a row of a task completed on an earlier day
C5_Witness ==
    /\ last.op \in Toggles
    /\ hist.before2 # Unused
    /\ hist.before2[1] = Complete
    /\ hist.before2[2] # NoDate
    /\ hist.before2[2] # DateOfDay(today)
    /\ tasks[hist.id].completed_date = DateOfDay(today)

\* C6: an edit with non-empty recurrence of a task that has no parent and
\* was not recurring creates exactly one task: an instance of the edited
\* task, Pending, with the user, folder, title, priority, due_date and
\* due_time the edited task was saved with; the edited task ends recurring
\* with last_generated today
C6_FirstInstanceOnBecomingRecurring ==
    [][\A id \in DOMAIN tasks :
          (/\ Ran(Edits, id)
           /\ last'.p.recurrence # ""
           /\ tasks[id].parent_task = NoTask
           /\ ~tasks[id].is_recurring)
          => /\ Cardinality(Created) = 1
             /\ Deleted = {}
             /\ \A n \in Created :
                   /\ tasks'[n].parent_task = id
                   /\ tasks'[n].status = Pending
                   /\ tasks'[n].user = tasks'[id].user
                   /\ tasks'[n].folder = tasks'[id].folder
                   /\ tasks'[n].title = tasks'[id].title
                   /\ tasks'[n].priority = tasks'[id].priority
                   /\ tasks'[n].due_date = tasks'[id].due_date
                   /\ tasks'[n].due_time = tasks'[id].due_time
             /\ tasks'[id].is_recurring
             /\ tasks'[id].last_generated = DateOfDay(today)]_vars

\* C6 happened: an edit made a task recurring and created its first instance,
\* due on a day that is not today, with a folder and a due time
C6_Witness ==
    /\ last.op \in Edits
    /\ last.created # NoTask
    /\ last.p.recurrence = "weekly"
    /\ tasks[last.created].parent_task = last.id
    /\ tasks[last.created].due_date = <<2025, 1, 6>>
    /\ tasks[last.created].folder # NoFolder
    /\ tasks[last.created].due_time # NoTime
    /\ tasks[last.id].recurrence_day = 0

\* the weekday of the due dates by the calendar, Monday 0 to Sunday 6:
\* 15 March 2024 is a Friday, 6 January 2025 a Monday
CalendarWeekday(d) == IF d = <<2024, 3, 15>> THEN 4 ELSE 0

\* the Derivation Rule: recurrence_day for a recurrence and a due date
RuleDay(r, d) ==
    CASE r = "daily" -> NoDay
      [] r = "monthly" -> d[3]
      [] r = "weekly" -> CalendarWeekday(d)
      [] r = "yearly" -> d[3]

\* the Derivation Rule: recurrence_month, given the value it had
RuleMonth(r, d, old) == IF r = "yearly" THEN d[2] ELSE old

\* C7: an edit with a non-empty recurrence and a due date gives the template
\* (the parent of an edited instance, else the edited task) that recurrence
\* type, the recurrence_day of the Derivation Rule, and for yearly the month
\* of the due date as recurrence_month, which otherwise keeps its value
C7_DerivationRule ==
    [][\A id \in DOMAIN tasks :
          LET tpl == IF tasks[id].parent_task # NoTask THEN tasks[id].parent_task ELSE id
          IN  (/\ Ran(Edits, id)
               /\ last'.p.recurrence # ""
               /\ last'.p.due_date # NoDate)
              => /\ tpl \in DOMAIN tasks'
                 /\ tasks'[tpl].recurrence_type = last'.p.recurrence
                 /\ tasks'[tpl].recurrence_day =
                       RuleDay(last'.p.recurrence, last'.p.due_date)
                 /\ tasks'[tpl].recurrence_month =
                       RuleMonth(last'.p.recurrence, last'.p.due_date,
                                 tasks[tpl].recurrence_month)]_vars

\* C7 happened: an edit of an instance with weekly recurrence and a Monday
\* due date set its template's recurrence_day to 0 and kept the
\* recurrence_month a yearly edit had set
C7_Witness ==
    /\ last.op \in Edits
    /\ last.p.recurrence = "weekly"
    /\ last.p.due_date = <<2025, 1, 6>>
    /\ tasks[last.id].parent_task # NoTask
    /\ tasks[tasks[last.id].parent_task].recurrence_day = 0
    /\ tasks[tasks[last.id].parent_task].recurrence_month = 3

\* the title a submitted title is stored as: its first letter a capital
StoredTitle(t) == IF t = <<"a", "b">> THEN <<"A", "b">> ELSE t

\* C8: after an edit of an instance with empty recurrence its former
\* template is gone, the instance is there with no parent, not recurring and
\* with the submitted folder, title, priority, due_date, due_time and status,
\* and no task has the deleted template as parent
C8_ClearingRecurrenceDeletesTemplate ==
    [][\A id \in DOMAIN tasks :
          LET par == tasks[id].parent_task
          IN  (/\ Ran(Edits, id)
               /\ par # NoTask
               /\ last'.p.recurrence = "")
              => /\ par \notin DOMAIN tasks'
                 /\ id \in DOMAIN tasks'
                 /\ tasks'[id].parent_task = NoTask
                 /\ ~tasks'[id].is_recurring
                 /\ tasks'[id].folder = last'.p.folder
                 /\ tasks'[id].title = StoredTitle(last'.p.title)
                 /\ tasks'[id].priority = last'.p.priority
                 /\ tasks'[id].due_date = last'.p.due_date
                 /\ tasks'[id].due_time = last'.p.due_time
                 /\ tasks'[id].status = last'.p.status
                 /\ \A j \in DOMAIN tasks' : tasks'[j].parent_task # par]_vars

\* C8 happened: an edit of an instance deleted its template, the instance is
\* there with the submitted folder, and a former sibling is there too
C8_Witness ==
    /\ last.op \in Edits
    /\ last.deleted # NoTask
    /\ last.p.recurrence = ""
    /\ last.deleted \notin DOMAIN tasks
    /\ last.id \in DOMAIN tasks
    /\ tasks[last.id].folder = 1
    /\ last.p.folder = 1
    /\ \E j \in DOMAIN tasks : j # last.id

\* C9: a step that takes an instance from Pending to Complete, its template
\* being recurring and not archived with no other Pending non-archived
\* instance, ends with a Pending instance of that template
C9_EveryCompletionSpawns ==
    [][\A id \in DOMAIN tasks \cap DOMAIN tasks' :
          LET par == tasks[id].parent_task
          IN  (/\ tasks[id].status = Pending
               /\ tasks'[id].status = Complete
               /\ par # NoTask
               /\ par \in DOMAIN tasks'
               /\ tasks[par].is_recurring
               /\ ~tasks[par].archived
               /\ ActiveInstances(tasks, par) \ {id} = {})
              => \E n \in DOMAIN tasks' :
                    tasks'[n].parent_task = par /\ tasks'[n].status = Pending]_vars

\* C10: a task has a completed_date exactly when it is Complete
C10_CompletedDateIffComplete ==
    \A i \in DOMAIN tasks :
        (tasks[i].completed_date # NoDate) <=> (tasks[i].status = Complete)

\* C11: a request that found no Pending non-archived instance of the template
\* creates one without looking again, a Pending non-archived instance of that
\* template, whatever became Pending since its look
C11_CreateDoesNotLookAgain ==
    [][\A r \in Requests :
          (reqs[r].pc = "create" /\ reqs'[r].pc = "stamp")
          => /\ Cardinality(Created) = 1
             /\ \A n \in Created :
                   /\ tasks'[n].parent_task = reqs[r].task.parent_task
                   /\ tasks'[n].status = Pending
                   /\ ~tasks'[n].archived]_vars

\* C11 happened: two requests ran to their end, the last of them just now;
\* each completed an instance of the same recurring, non-archived template
\* and created another, and both instances created are Pending and not
\* archived
C11_Witness ==
    /\ last.op = "stamp"
    /\ reqs[1].pc = "done"
    /\ reqs[2].pc = "done"
    /\ reqs[1].created # NoTask
    /\ reqs[2].created # NoTask
    /\ reqs[1].task.parent_task = reqs[2].task.parent_task
    /\ reqs[1].task.parent_task \in DOMAIN tasks
    /\ tasks[reqs[1].task.parent_task].is_recurring
    /\ ~tasks[reqs[1].task.parent_task].archived
    /\ {reqs[1].created, reqs[2].created}
           \subseteq ActiveInstances(tasks, reqs[1].task.parent_task)
    /\ reqs[1].created # reqs[2].created
    /\ \A r \in Requests :
          /\ tasks[reqs[r].id].status = Complete
          /\ reqs[r].id \notin {reqs[1].created, reqs[2].created}

\* C11 happened between siblings: the two requests completed two different
\* instances of the template
C11_WitnessSiblings ==
    /\ C11_Witness
    /\ reqs[1].id # reqs[2].id

\* C12: every step of edit is a step task_form takes from the same table with
\* the same payload, and every step of task_form is one of edit: the same rows
\* with the same fields, the same tasks created and deleted
C12_EditAndTaskFormAgree ==
    [][\A id \in DOMAIN tasks :
          /\ Ran({"edit"}, id) =>
                \E u \in Users :
                    ApplyEdit("edit", id, last'.p,
                              UpdateCompletedDate(FormSave(tasks[id], last'.p, u),
                                                  tasks[id].status, DateOfDay(today)))
          /\ Ran({"task_form"}, id) =>
                \E u \in Users :
                    ApplyEdit("task_form", id, last'.p, FormSave(tasks[id], last'.p, u))]_vars

MailOps == {"send_task_reminder_email", "send_past_due_digest_email"}

\* the user has an address to send to
HasAddress(user) ==
    (user.notification_email # NoEmail /\ user.notification_email # "") \/ user.email # ""

\* C13: a call of either mail function returns and does not raise, whatever
\* the transport does; it returns success = true exactly when the user has an
\* address and the transport took the message, otherwise success = false with
\* an error entry; it hands the transport nothing when the user has no
\* address; and it leaves every task as it was
C13_MailOutcomeIsReturned ==
    [][last'.op \in MailOps =>
          /\ ~mail'.outcome.raised
          /\ mail'.outcome.returned.success
                <=> (HasAddress(mail'.user) /\ ~mail'.transport.raises)
          /\ ~mail'.outcome.returned.success
                => "error" \in DOMAIN mail'.outcome.returned
          /\ ~HasAddress(mail'.user) => mail'.sent = <<>>
          /\ HasAddress(mail'.user) => Len(mail'.sent) = 1
          /\ tasks' = tasks]_vars

\* C13 happened: the transport raised on a reminder for a user whose only
\* address is the notification address, and the call returned the failure
C13_Witness ==
    /\ mail.op = "send_task_reminder_email"
    /\ mail.user.email = ""
    /\ mail.user.notification_email = "n@x"
    /\ mail.transport.raises
    /\ Len(mail.sent) = 1
    /\ mail.sent[1].to = "n@x"
    /\ ~mail.outcome.raised
    /\ ~mail.outcome.returned.success
    /\ mail.outcome.returned.error = "refused"

\* the step is a request to handler op for task id whose write k raised
Failed(op, id, k) ==
    Ran({op}, id) /\ response'.status = 500 /\ response'.write = k

\* C14: when the save of the template raises during an edit of an instance,
\* the instance is stored with the submitted fields and the template is as it
\* was; when the create of the next instance raises during a completion by
\* status_htmx, the task is stored Complete with completed_date today, no
\* task is created and the template is as it was
C14_EarlierWritesStay ==
    [][\A id \in DOMAIN tasks :
          LET par == tasks[id].parent_task
          IN  /\ (Failed("edit", id, 2) /\ par # NoTask /\ last'.p.recurrence # "")
                 => /\ tasks'[id].folder = last'.p.folder
                    /\ tasks'[id].title = StoredTitle(last'.p.title)
                    /\ tasks'[id].priority = last'.p.priority
                    /\ tasks'[id].due_date = last'.p.due_date
                    /\ tasks'[id].due_time = last'.p.due_time
                    /\ tasks'[id].status = last'.p.status
                    /\ tasks'[par] = tasks[par]
                    /\ Created = {}
                    /\ Deleted = {}
              /\ (Failed("status_htmx", id, 2) /\ tasks[id].status = Pending)
                 => /\ tasks'[id].status = Complete
                    /\ tasks'[id].completed_date = DateOfDay(today)
                    /\ tasks'[par] = tasks[par]
                    /\ Created = {}
                    /\ Deleted = {}]_vars

\* C14 happened in an edit: the save of the template raised, the instance
\* has the submitted folder, priority and due time and the template has not
C14_Witness ==
    /\ last.op = "edit"
    /\ response = ServerError(2)
    /\ last.p.recurrence # ""
    /\ tasks[last.id].parent_task # NoTask
    /\ tasks[last.id].folder = 1
    /\ tasks[last.id].priority = 2
    /\ tasks[last.id].due_time = 1
    /\ tasks[tasks[last.id].parent_task].folder = NoFolder
    /\ tasks[tasks[last.id].parent_task].priority = 1
    /\ tasks[tasks[last.id].parent_task].due_time = NoTime

\* C14 happened in a completion: the create raised, the task is Complete and
\* its recurring, non-archived template has no Pending instance
C14_WitnessCompletion ==
    /\ last.op = "status_htmx"
    /\ response = ServerError(2)
    /\ tasks[last.id].status = Complete
    /\ tasks[last.id].completed_date = DateOfDay(today)
    /\ tasks[tasks[last.id].parent_task].is_recurring
    /\ ~tasks[tasks[last.id].parent_task].archived
    /\ ActiveInstances(tasks, tasks[last.id].parent_task) = {}

\* the last table of a request's writes is the table the request leaves
\* when no write fails
C14_WritesEndAsTheHandlers ==
    [][\A id \in DOMAIN tasks :
          /\ (Ran({"status_htmx"}, id) /\ response'.status = 200)
             => LET w == StatusWrites(tasks, id, nextId, DateOfDay(today))
                IN  tasks' = w[Len(w)]
          /\ (Ran({"edit"}, id) /\ response'.status = 200)
             => \E mode \in OnDelete, li \in DOMAIN tasks \cup {NoTask} :
                   LET w == IF tasks[id].parent_task # NoTask
                            THEN InstanceWrites(tasks, id, tasks'[id], last'.p.recurrence,
                                                mode)
                            ELSE TemplateWrites(tasks, id,
                                                FormSave(tasks[id], last'.p, tasks'[id].user),
                                                last'.p.recurrence, tasks[id].is_recurring,
                                                li, nextId, DateOfDay(today))
                   IN  tasks' = w[Len(w)]]_vars

\* C15: an edit with non-empty recurrence of an instance leaves its template
\* with the folder, title, priority and due_time the instance was saved with
\* and with the submitted recurrence as recurrence_type; the template's
\* due_date, status, is_recurring, archived and last_generated stay as they
\* were, and no task is created or deleted
C15_InstanceEditSyncsTemplate ==
    [][\A id \in DOMAIN tasks :
          LET par == tasks[id].parent_task
          IN  (Ran(Edits, id) /\ par # NoTask /\ last'.p.recurrence # "")
              => /\ tasks'[id].folder = last'.p.folder
                 /\ tasks'[id].title = StoredTitle(last'.p.title)
                 /\ tasks'[id].priority = last'.p.priority
                 /\ tasks'[id].due_time = last'.p.due_time
                 /\ tasks'[par].folder = tasks'[id].folder
                 /\ tasks'[par].title = tasks'[id].title
                 /\ tasks'[par].priority = tasks'[id].priority
                 /\ tasks'[par].due_time = tasks'[id].due_time
                 /\ tasks'[par].recurrence_type = last'.p.recurrence
                 /\ tasks'[par].due_date = tasks[par].due_date
                 /\ tasks'[par].status = tasks[par].status
                 /\ tasks'[par].is_recurring = tasks[par].is_recurring
                 /\ tasks'[par].archived = tasks[par].archived
                 /\ tasks'[par].last_generated = tasks[par].last_generated
                 /\ Created = {}
                 /\ Deleted = {}]_vars

\* C15 happened: an edit of an instance gave it a folder, a due time and a
\* due date; its template has the folder and the due time and another due
\* date
C15_Witness ==
    /\ last.op \in Edits
    /\ last.p.recurrence = "monthly"
    /\ last.p.folder = 1
    /\ last.p.due_date = <<2025, 1, 6>>
    /\ tasks[last.id].parent_task # NoTask
    /\ tasks[tasks[last.id].parent_task].folder = 1
    /\ tasks[tasks[last.id].parent_task].due_time = 1
    /\ tasks[tasks[last.id].parent_task].recurrence_type = "monthly"
    /\ tasks[tasks[last.id].parent_task].due_date = <<2024, 3, 15>>

\* the Pending instances of task t in table db
PendingInstances(db, t) ==
    {i \in DOMAIN db : db[i].parent_task = t /\ db[i].status = Pending}

\* the place of a due date among due dates, an absent one before every date
DueOrder(d) == IF d = NoDate THEN 0 ELSE toordinal(d)

\* the step gave instance i the folder, title, priority and due_time task t
\* ends with and changed nothing else of it
GotFieldsOf(i, t) ==
    tasks'[i] = [tasks[i] EXCEPT !.folder = tasks'[t].folder, !.title = tasks'[t].title,
                                 !.priority = tasks'[t].priority,
                                 !.due_time = tasks'[t].due_time]

\* the step is an edit with non-empty recurrence of task id, which has no
\* parent_task and is recurring
TemplateEdited(id) ==
    /\ Ran(Edits, id)
    /\ tasks[id].parent_task = NoTask
    /\ tasks[id].is_recurring
    /\ last'.p.recurrence # ""

C17_RecurringIffRecurrenceSubmitted ==
    [][\A id \in DOMAIN tasks :
          (Ran(Edits, id) /\ tasks[id].parent_task = NoTask)
          => /\ tasks'[id].is_recurring <=> (last'.p.recurrence # "")
             /\ last'.p.recurrence = ""
                => /\ tasks'[id].recurrence_type = NoType
                   /\ tasks'[id].recurrence_day = NoDay
                   /\ tasks'[id].recurrence_month = NoMonth
                   /\ Created = {}
                   /\ Deleted = {}
                   /\ \A j \in DOMAIN tasks :
                         tasks[j].parent_task = id => tasks'[j] = tasks[j]]_vars

\* C17 happened: an edit with empty recurrence of a task that has an
\* instance, with a folder the instance has not
C17_Witness ==
    /\ last.op \in Edits
    /\ last.p.recurrence = ""
    /\ last.p.folder = 1
    /\ tasks[last.id].parent_task = NoTask
    /\ ~tasks[last.id].is_recurring
    /\ tasks[last.id].recurrence_type = NoType
    /\ \E j \in DOMAIN tasks :
          tasks[j].parent_task = last.id /\ tasks[j].folder = NoFolder

\* C18: an edit with non-empty recurrence that leaves the edited task without
\* due_date gives the template (the parent of an edited instance, else the
\* edited task) the submitted recurrence as recurrence_type and leaves the
\* template's recurrence_day and recurrence_month as they were
C18_NoDueDateKeepsDayAndMonth ==
    [][\A id \in DOMAIN tasks :
          LET tpl == IF tasks[id].parent_task # NoTask THEN tasks[id].parent_task ELSE id
          IN  (/\ Ran(Edits, id)
               /\ last'.p.recurrence # ""
               /\ tasks'[id].due_date = NoDate)
              => /\ tasks'[tpl].recurrence_type = last'.p.recurrence
                 /\ tasks'[tpl].recurrence_day = tasks[tpl].recurrence_day
                 /\ tasks'[tpl].recurrence_month = tasks[tpl].recurrence_month]_vars

\* C18 happened: a weekly edit without due date of an instance whose
\* template has the day and month a yearly edit gave it
C18_Witness ==
    /\ last.op \in Edits
    /\ last.p.recurrence = "weekly"
    /\ last.p.due_date = NoDate
    /\ tasks[last.id].due_date = NoDate
    /\ tasks[last.id].parent_task # NoTask
    /\ tasks[tasks[last.id].parent_task].recurrence_type = "weekly"
    /\ tasks[tasks[last.id].parent_task].recurrence_day = 15
    /\ tasks[tasks[last.id].parent_task].recurrence_month = 3

\* C19: a toggle of a task that has no parent_task, or whose parent is not
\* recurring, or whose parent is archived, creates no task and leaves the
\* last_generated of every task as it was
C19_NoSpawnWithoutActiveTemplate ==
    [][\A id \in DOMAIN tasks :
          LET par == tasks[id].parent_task
          IN  (/\ Ran(Toggles, id)
               /\ \/ par = NoTask
                  \/ ~tasks[par].is_recurring
                  \/ tasks[par].archived)
              => /\ Created = {}
                 /\ Deleted = {}
                 /\ \A j \in DOMAIN tasks :
                       tasks'[j].last_generated = tasks[j].last_generated]_vars

\* C19 happened: status_htmx completed the only Pending instance of a parent
\* that is not recurring and nothing was created
C19_Witness ==
    /\ last.op = "status_htmx"
    /\ last.created = NoTask
    /\ tasks[last.id].status = Complete
    /\ tasks[last.id].parent_task # NoTask
    /\ ~tasks[tasks[last.id].parent_task].is_recurring
    /\ ~tasks[tasks[last.id].parent_task].archived
    /\ ActiveInstances(tasks, tasks[last.id].parent_task) = {}

\* C19 happened with an archived parent: status_htmx completed the only
\* Pending instance of a recurring, archived template
C19_WitnessArchived ==
    /\ last.op = "status_htmx"
    /\ last.created = NoTask
    /\ tasks[last.id].status = Complete
    /\ tasks[last.id].parent_task # NoTask
    /\ tasks[tasks[last.id].parent_task].is_recurring
    /\ tasks[tasks[last.id].parent_task].archived
    /\ ActiveInstances(tasks, tasks[last.id].parent_task) = {}

\* a payload as the data model wants it: a title, a priority from 1 to 10, a
\* recurrence that is none, daily, weekly, monthly or yearly, a status
WellFormed(p) ==
    /\ Len(p.title) > 0
    /\ 1 <= p.priority /\ p.priority <= 10
    /\ p.recurrence \in {"", "daily", "weekly", "monthly", "yearly"}
    /\ p.status \in {0, 1}

\* C20: an edit request for an id that is no task, or with a payload that is
\* not well-formed, leaves the table and the id counter as they were, and
\* the request for an id that is no task is answered with 404
C20_RejectedEditChangesNothing ==
    [][\A id \in TaskIds :
          (Ran(Edits, id) /\ (id \notin DOMAIN tasks \/ ~WellFormed(last'.p)))
          => /\ tasks' = tasks
             /\ nextId' = nextId
             /\ id \notin DOMAIN tasks => response'.status = 404]_vars

\* C20 happened with a bad payload: an edit of a task with priority 11 and
\* another folder, status and recurrence was posted, and the task, which
\* has an instance, is as it was
C20_Witness ==
    /\ last.op \in Edits
    /\ last.id \in DOMAIN tasks
    /\ last.p.priority = 11
    /\ response.status # 404
    /\ tasks[last.id].priority = 1
    /\ tasks[last.id].folder = NoFolder
    /\ tasks[last.id].status = Pending
    /\ \E j \in DOMAIN tasks : tasks[j].parent_task = last.id

\* C20 happened with a missing id: an edit of a deleted template was posted
\* with a payload the form would take, and answered with 404
C20_WitnessNotFound ==
    /\ last.op \in Edits
    /\ last.id \notin DOMAIN tasks
    /\ last.id < nextId
    /\ WellFormed(last.p)
    /\ response.status = 404
    /\ tasks # <<>>

\* C21: no task that has a parent_task is recurring, and no task that has a
\* parent_task is the parent_task of a task
C21_InstancesAreLeaves ==
    \A i \in DOMAIN tasks :
        tasks[i].parent_task # NoTask
        => /\ ~tasks[i].is_recurring
           /\ \A j \in DOMAIN tasks : tasks[j].parent_task # i

\* C21 happened: an edit with non-empty recurrence of an instance, and the
\* completion of an instance that created the next one
C21_Witness ==
    /\ last.op = "status_htmx"
    /\ last.created # NoTask
    /\ tasks[last.id].parent_task # NoTask
    /\ tasks[last.id].folder = 1
    /\ tasks[tasks[last.id].parent_task].folder = 1
    /\ tasks[tasks[last.id].parent_task].is_recurring
    /\ ~tasks[last.created].is_recurring

\* C22: the parent_task of every task that has one is a task of the table
\* that is recurring and has no parent_task
C22_ParentIsATemplate ==
    \A i \in DOMAIN tasks :
        tasks[i].parent_task # NoTask
        => /\ tasks[i].parent_task \in DOMAIN tasks
           /\ tasks[tasks[i].parent_task].is_recurring
           /\ tasks[tasks[i].parent_task].parent_task = NoTask

\* C23: status_htmx leaves every task of the table as it was, but for the
\* status and completed_date of the toggled task and the last_generated of
\* its parent; it creates at most one task and deletes none
C23_StatusHtmxFrame ==
    [][\A id \in DOMAIN tasks :
          Ran({"status_htmx"}, id)
          => /\ Cardinality(Created) <= 1
             /\ Deleted = {}
             /\ tasks'[id] = [tasks[id] EXCEPT !.status = tasks'[id].status,
                                               !.completed_date = tasks'[id].completed_date]
             /\ \A j \in DOMAIN tasks \ {id} :
                   IF j = tasks[id].parent_task
                   THEN tasks'[j] = [tasks[j] EXCEPT
                                        !.last_generated = tasks'[j].last_generated]
                   ELSE tasks'[j] = tasks[j]]_vars

\* C23 happened: status_htmx completed an instance and created the next one
\* while the template has a third, Complete instance with another folder
C23_Witness ==
    /\ last.op = "status_htmx"
    /\ last.created # NoTask
    /\ tasks[last.id].status = Complete
    /\ tasks[tasks[last.id].parent_task].last_generated = DateOfDay(today)
    /\ tasks[last.id].folder # tasks[tasks[last.id].parent_task].folder

\* C24: every task that is the parent_task of a task has a last_generated,
\* and a step that creates a task with a parent_task leaves that parent's
\* last_generated at the date of the step
C24_ParentsAreStamped ==
    [][/\ \A i \in DOMAIN tasks' :
             tasks'[i].parent_task \in DOMAIN tasks'
             => tasks'[tasks'[i].parent_task].last_generated # NoDate
       /\ \A n \in Created :
             tasks'[n].parent_task # NoTask
             => tasks'[tasks'[n].parent_task].last_generated = DateOfDay(today)]_vars

\* C24 happened: on the second day status_htmx completed an instance of a
\* template and created the next one, and the template is stamped with the
\* second day
C24_Witness ==
    /\ last.op = "status_htmx"
    /\ last.created # NoTask
    /\ today = 2
    /\ tasks[last.id].parent_task # NoTask
    /\ tasks[last.id].completed_date = DateOfDay(2)
    /\ tasks[last.created].parent_task = tasks[last.id].parent_task
    /\ tasks[tasks[last.id].parent_task].last_generated = DateOfDay(2)

\* the filter_label of a filter as tasks_due reads it
LabelOf(filter) == Get(filter, "filter_label", None)

\* C25: after two tasks_due calls in a row, the first from a session whose
\* filter label is not "due", the tasks_filter, the tasks_all flag and the
\* user's tasks_folder read as they did before the first call, and the
\* session has no tasks_filter_stash
C25_DueTwiceRestores ==
    (/\ last.op = "tasks_due"
     /\ hist.before2 # Unused
     /\ LabelOf(hist.before2[1]) # StrVal("due"))
    => /\ Get(session, "tasks_filter", EmptyDict) = hist.before2[1]
       /\ tasks_all = hist.before2[2]
       /\ tasks_folder = hist.before2[3]
       /\ "tasks_filter_stash" \notin DOMAIN session

\* C25 happened: two tasks_due calls in a row from a custom filter with a
\* priority, a folder selected and the all-folders flag off
C25_Witness ==
    /\ last.op = "tasks_due"
    /\ hist.before2 # Unused
    /\ LabelOf(hist.before2[1]) = StrVal("custom")
    /\ "priority" \in DOMAIN hist.before2[1]
    /\ hist.before2[2] = FALSE
    /\ hist.before2[3] = 1
    /\ LabelOf(hist.before[1]) = StrVal("due")
    /\ hist.before[2] = TRUE
    /\ hist.before[3] = NoFolder
    /\ tasks_folder = 1

\* C25 happened from a session that never had a filter
C25_WitnessNoFilter ==
    /\ last.op = "tasks_due"
    /\ hist.before2 # Unused
    /\ hist.before2[1] = EmptyDict
    /\ hist.before[4]
    /\ "tasks_filter" \in DOMAIN session
    /\ session["tasks_filter"] = EmptyDict

\* the requests other than tasks_due that write the filter
FilterWrites ==
    {"task_filter", "tasks_order_by", "task_filter_default", "filter_priority_htmx"}

\* C26: whenever the session holds a tasks_filter_stash the tasks_filter has
\* filter_label "due", and after every request other than tasks_due that
\* writes or changes the filter the session holds no stash
C26_StashOnlyWhileDue ==
    [][/\ "tasks_filter_stash" \in DOMAIN session'
          => LabelOf(Get(session', "tasks_filter", EmptyDict)) = StrVal("due")
       /\ (\/ last'.op \in FilterWrites
           \/ /\ last'.op # "tasks_due"
              /\ Get(session', "tasks_filter", EmptyDict)
                    # Get(session, "tasks_filter", EmptyDict))
          => "tasks_filter_stash" \notin DOMAIN session']_vars

\* C26 happened: a stash was in the session under the due filter, and the
\* filter form posted next removed it
C26_Witness ==
    /\ last.op = "task_filter"
    /\ hist.before[4]
    /\ LabelOf(hist.before[1]) = StrVal("due")
    /\ LabelOf(session["tasks_filter"]) = StrVal("custom")
    /\ "tasks_filter_stash" \notin DOMAIN session

\* C26 happened: the stash is kept under the due filter while the view
\* tasks_all runs
C26_WitnessKept ==
    /\ last.op = "tasks_all"
    /\ "tasks_filter_stash" \in DOMAIN session
    /\ session["tasks_filter"] = DueFilter

\* C26 happened: a header click on the due filter removed the stash and left
\* the label "due"
C26_WitnessSorted ==
    /\ last.op = "tasks_order_by"
    /\ hist.before[4]
    /\ "tasks_filter_stash" \notin DOMAIN session
    /\ LabelOf(session["tasks_filter"]) = StrVal("due")

====
